---- MODULE Spec2Model ----
(***************************************************************************)
(* Read-through cache of the task catalogue: TaskService.get_all_tasks     *)
(* (src/src/core/services/tasks.py) over ExcelService.parse_shop           *)
(* (src/src/core/services/excel.py) and one Redis key.                     *)
(*                                                                         *)
(* Python values are tagged tuples, so that any two of them can be         *)
(* compared: <<"none">>, <<"bytes", tokens>>, <<"num", n>>, <<"str", s>>,  *)
(* <<"arr", elems>>, <<"obj", pairs>>.  A byte string is a sequence of     *)
(* tokens: the JSON punctuation, the numbers 0 and 1, the string "k", and  *)
(* X, a byte that is not valid UTF-8 (0x80).  An outcome of a Python call  *)
(* is <<"return", value>> or <<"raise", exception>>.                       *)
(***************************************************************************)
EXTENDS Integers, Sequences, FiniteSets, TLC

VARIABLES
    cache,        \* Redis: <<"none">> when the key is absent, else <<"bytes", tokens>>
    cacheTtl,     \* Redis: seconds of expiry set on the key, 0 when it has none
    file,         \* the source file: [path |-> chars, sheet |-> the sheet's content]
    pc,           \* per call: the position reached in get_all_tasks
    cached_data,  \* per call: local variable of get_all_tasks
    parsed_data,  \* per call: local variable of get_all_tasks
    response,     \* per call: local variable of get_all_tasks
    result,       \* per call: <<"none">> while running, then the outcome
    ops,          \* per call: the cache and source operations issued so far
    warm,         \* the calls completed since the key was last empty and untouched
    db            \* the relational store: [tasks |-> ids of the records, out |-> the
                  \* outcome of the last create_tasks or delete_task]

vars == <<cache, cacheTtl, file, pc, cached_data, parsed_data, response, result, ops, warm,
          db>>

(* ------------------------------ bounds -------------------------------- *)

\* Length of the byte strings another client may leave at the key.
MaxForeignLen == 2
\* Rows of the sheet.
MaxRows == 2
\* Calls logged in one warm run.
MaxCalls == 3
\* Task records in the relational store.
MaxTasks == 2

(* ----------------------------- constants ------------------------------ *)

HTTP_200_OK == 200
HTTP_422_UNPROCESSABLE_ENTITY == 422
HTTP_404_NOT_FOUND == 404
HTTP_400_BAD_REQUEST == 400
CACHE_EXPIRE == 21600

\* details="Данные получены из кеша."
FromCacheDetails == "data obtained from cache"
\* details="Данные получены напрямую из Excel файла."
FromExcelDetails == "data obtained directly from Excel file"

Procs == {1, 2}

None == <<"none">>
Bytes(s) == <<"bytes", s>>
Return(v) == <<"return", v>>
Raise(kind, code, detail) == <<"raise", <<kind, code, detail>>>>
IsReturn(o) == o[1] = "return"
IsRaise(o) == o[1] = "raise"

\* ParseTasksResponse(status=, details=, data=)
ParseTasksResponse(status, details, data) ==
    [status |-> status, details |-> details, data |-> data]

(* ---------------------------- byte strings ---------------------------- *)

Tokens == {"[", "]", "{", "}", ",", ":", "0", "1", "k", "X"}

RECURSIVE SeqsUpTo(_, _)
SeqsUpTo(S, n) ==
    IF n = 0 THEN {<<>>}
    ELSE LET shorter == SeqsUpTo(S, n - 1)
         IN  shorter \cup {Append(s, t) : s \in {x \in shorter : Len(x) = n - 1}, t \in S}

\* What another client of the store may write at the key.
ForeignValues == SeqsUpTo(Tokens, MaxForeignLen)

\* One such value of each kind: empty, malformed JSON, not UTF-8, JSON that is
\* falsy in Python (0, []), JSON that is truthy.
ForeignKinds == {<<>>, <<"[">>, <<"X">>, <<"0">>, <<"[", "]">>, <<"1">>}

(* ------------------------------- json --------------------------------- *)

\* Python's truth value of a value: `if cached_data:`, `if parsed_data:`,
\* `if not formatted_json_data:`.
Truthy(v) ==
    CASE v[1] = "none"  -> FALSE
      [] v[1] = "bytes" -> Len(v[2]) > 0
      [] v[1] = "num"   -> v[2] # 0
      [] v[1] = "str"   -> Len(v[2]) > 0
      [] v[1] = "arr"   -> Len(v[2]) > 0
      [] v[1] = "obj"   -> Len(v[2]) > 0

\* dict[key] = val: a key already present keeps its place and takes the value.
DictSet(pairs, key, val) ==
    IF \E i \in 1..Len(pairs) : pairs[i][1] = key
    THEN [i \in 1..Len(pairs) |-> IF pairs[i][1] = key THEN <<key, val>> ELSE pairs[i]]
    ELSE Append(pairs, <<key, val>>)

Parsed(v, next) == [ok |-> TRUE, val |-> v, next |-> next]
NotParsed == [ok |-> FALSE, val |-> None, next |-> 0]

RECURSIVE ScanValue(_, _), ScanArray(_, _, _), ScanObject(_, _, _)

\* json.decoder: one value starting at token i of s.
ScanValue(s, i) ==
    IF i > Len(s) THEN NotParsed
    ELSE CASE s[i] = "0" -> Parsed(<<"num", 0>>, i + 1)
           [] s[i] = "1" -> Parsed(<<"num", 1>>, i + 1)
           [] s[i] = "k" -> Parsed(<<"str", "k">>, i + 1)
           [] s[i] = "[" ->
                IF i + 1 <= Len(s) /\ s[i + 1] = "]"
                THEN Parsed(<<"arr", <<>>>>, i + 2)
                ELSE ScanArray(s, i + 1, <<>>)
           [] s[i] = "{" ->
                IF i + 1 <= Len(s) /\ s[i + 1] = "}"
                THEN Parsed(<<"obj", <<>>>>, i + 2)
                ELSE ScanObject(s, i + 1, <<>>)
           [] OTHER -> NotParsed

\* The elements of an array after its "[" or a ",".
ScanArray(s, i, acc) ==
    LET r == ScanValue(s, i)
    IN  IF ~r.ok \/ r.next > Len(s) THEN NotParsed
        ELSE IF s[r.next] = "," THEN ScanArray(s, r.next + 1, Append(acc, r.val))
        ELSE IF s[r.next] = "]" THEN Parsed(<<"arr", Append(acc, r.val)>>, r.next + 1)
        ELSE NotParsed

\* The members of an object after its "{" or a ",".
ScanObject(s, i, acc) ==
    IF i + 1 > Len(s) \/ s[i] # "k" \/ s[i + 1] # ":" THEN NotParsed
    ELSE LET r == ScanValue(s, i + 2)
         IN  IF ~r.ok \/ r.next > Len(s) THEN NotParsed
             ELSE IF s[r.next] = ","
                  THEN ScanObject(s, r.next + 1, DictSet(acc, "k", r.val))
             ELSE IF s[r.next] = "}"
                  THEN Parsed(<<"obj", DictSet(acc, "k", r.val)>>, r.next + 1)
             ELSE NotParsed

\* json.loads(bytes): the bytes are decoded as UTF-8 first (UnicodeDecodeError,
\* a ValueError that is no JSONDecodeError), then one value is scanned and
\* nothing may follow it (JSONDecodeError).
json_loads(b) ==
    IF \E i \in 1..Len(b[2]) : b[2][i] = "X"
    THEN Raise("UnicodeDecodeError", 0, "invalid start byte")
    ELSE LET r == ScanValue(b[2], 1)
         IN  IF r.ok /\ r.next = Len(b[2]) + 1
             THEN Return(r.val)
             ELSE Raise("JSONDecodeError", 0, "invalid json")

RECURSIVE Encode(_), EncodeItems(_, _), EncodePairs(_, _)

\* json.encoder: the tokens of a value.
Encode(v) ==
    CASE v[1] = "num" -> IF v[2] = 0 THEN <<"0">> ELSE <<"1">>
      [] v[1] = "str" -> <<v[2]>>
      [] v[1] = "arr" -> <<"[">> \o EncodeItems(v[2], 1) \o <<"]">>
      [] v[1] = "obj" -> <<"{">> \o EncodePairs(v[2], 1) \o <<"}">>

EncodeItems(elems, i) ==
    IF i > Len(elems) THEN <<>>
    ELSE Encode(elems[i])
         \o (IF i < Len(elems) THEN <<",">> ELSE <<>>)
         \o EncodeItems(elems, i + 1)

EncodePairs(pairs, i) ==
    IF i > Len(pairs) THEN <<>>
    ELSE <<pairs[i][1], ":">> \o Encode(pairs[i][2])
         \o (IF i < Len(pairs) THEN <<",">> ELSE <<>>)
         \o EncodePairs(pairs, i + 1)

\* json.dumps(value)
json_dumps(v) == Encode(v)

(* --------------------- ExcelService (excel.py) ------------------------ *)

\* str.endswith(suffix)
EndsWith(s, suffix) ==
    /\ Len(s) >= Len(suffix)
    /\ SubSeq(s, Len(s) - Len(suffix) + 1, Len(s)) = suffix

\* Python's `a or b` on strings: a when it is non-empty, else b.
PyOr(a, b) == IF Len(a) > 0 THEN a ELSE b

Xlsx == <<".", "x", "l", "s", "x">>
Xls == <<".", "x", "l", "s">>
Csv == <<".", "c", "s", "v">>

\* Mutant: only a path without any extension is rejected.
ExtensionRejected_AnyDot(file_path) == ~\E i \in 1..Len(file_path) : file_path[i] = "."

\* `not file_path.endswith(".xlsx" or ".xls")`
ExtensionRejected(file_path) == ~EndsWith(file_path, PyOr(Xlsx, Xls))

\* The sheet "Персонажи": absent, or its rows (one cell, column k, per row).
NoSheet == <<"nosheet">>
Sheet(rows) == <<"rows", rows>>
SheetRows(n) == [i \in 1..n |-> i % 2]

\* pandas.read_excel(file_path, sheet_name="Персонажи"): a DataFrame of the
\* sheet's rows; ValueError when the workbook has no such sheet.
read_excel(f) ==
    IF f.sheet[1] = "nosheet"
    THEN Raise("ValueError", 0, "Worksheet not found")
    ELSE Return(f.sheet[2])

RECURSIVE Records(_, _)
\* The tokens of the DataFrame's rows from row i on, one object per row.
Records(df, i) ==
    IF i > Len(df) THEN <<>>
    ELSE <<"{", "k", ":", IF df[i] = 0 THEN "0" ELSE "1", "}">>
         \o (IF i < Len(df) THEN <<",">> ELSE <<>>)
         \o Records(df, i + 1)

\* DataFrame.to_json(orient="records")
to_json(df) == Bytes(<<"[">> \o Records(df, 1) \o <<"]">>)

\* ExcelService.parse_shop
parse_shop(f) ==
    IF ExtensionRejected(f.path)
    THEN Raise("HTTPException", HTTP_422_UNPROCESSABLE_ENTITY, "Unprocessable content")
    ELSE LET exel_shop_df == read_excel(f)
         IN  IF IsRaise(exel_shop_df) THEN exel_shop_df
             ELSE IF Len(exel_shop_df[2]) = 0
             THEN Raise("HTTPException", HTTP_404_NOT_FOUND, "no such table")
             ELSE LET formatted_json_data == json_loads(to_json(exel_shop_df[2]))
                  IN  IF IsRaise(formatted_json_data) THEN formatted_json_data
                      ELSE IF ~Truthy(formatted_json_data[2])
                      THEN Raise("HTTPException", HTTP_400_BAD_REQUEST, "formatting error")
                      ELSE Return(ParseTasksResponse(HTTP_200_OK, FromExcelDetails,
                                                     formatted_json_data[2]))

Paths == {<<"f">> \o Xlsx, <<"f">> \o Xls, <<"f">> \o Csv}
Sheets == {NoSheet} \cup {Sheet(SheetRows(n)) : n \in 0..MaxRows}
Files == [path : Paths, sheet : Sheets]

(* ------------------------- Redis (redis_client) ----------------------- *)

\* redis_client.get(key): the bytes at the key or None; an unreachable store raises.
RedisGet(up, stored) ==
    IF up THEN Return(stored) ELSE Raise("ConnectionError", 0, "store unreachable")

(* ----------------------- TaskService (tasks.py) ----------------------- *)

\* Mutant: the store's error is not caught.
_get_cached_data_Uncaught(up, stored) == RedisGet(up, stored)

\* TaskService._get_cached_data
_get_cached_data(up, stored) ==
    LET data == RedisGet(up, stored)
    IN  IF IsRaise(data) THEN Return(None) ELSE data

\* Mutant: the key is deleted after every read of it, deserialized or not.
_parse_cached_data_AlwaysDelete(cached, up) ==
    LET parsed == json_loads(cached)
    IN  IF IsReturn(parsed) THEN [out |-> parsed, del |-> IF up THEN "ok" ELSE "failed"]
        ELSE IF parsed[2][1] = "JSONDecodeError"
        THEN [out |-> Return(None), del |-> IF up THEN "ok" ELSE "failed"]
        ELSE [out |-> parsed, del |-> "no"]

\* TaskService._parse_cached_data: its outcome, and whether it issued the
\* delete of the key ("no", "ok", "failed").
_parse_cached_data(cached, up) ==
    LET parsed == json_loads(cached)
    IN  IF IsReturn(parsed) THEN [out |-> parsed, del |-> "no"]
        ELSE IF parsed[2][1] = "JSONDecodeError"
        THEN [out |-> Return(None), del |-> IF up THEN "ok" ELSE "failed"]
        ELSE [out |-> parsed, del |-> "no"]

\* Mutant: the failure of the set is not caught.
_cache_response_Uncaught(resp, up) ==
    [out |-> IF up THEN Return(None) ELSE Raise("ConnectionError", 0, "store unreachable"),
     set |-> IF up THEN "ok" ELSE "failed",
     value |-> Bytes(json_dumps(resp.data)),
     ex |-> CACHE_EXPIRE]

\* Mutant: the payload is cached wrapped in an object, as an envelope would be.
_cache_response_Wrapped(resp, up) ==
    [out |-> Return(None),
     set |-> IF up THEN "ok" ELSE "failed",
     value |-> Bytes(<<"{", "k", ":">> \o json_dumps(resp.data) \o <<"}">>),
     ex |-> CACHE_EXPIRE]

\* Mutant: the response is never written back.
_cache_response_Skip(resp, up) ==
    [out |-> Return(None),
     set |-> "no",
     value |-> Bytes(json_dumps(resp.data)),
     ex |-> CACHE_EXPIRE]

\* Mutant: the value is stored piecewise and the last piece is missing.
_cache_response_Truncated(resp, up) ==
    [out |-> Return(None),
     set |-> IF up THEN "ok" ELSE "failed",
     value |-> Bytes(SubSeq(json_dumps(resp.data), 1, Len(json_dumps(resp.data)) - 1)),
     ex |-> CACHE_EXPIRE]

\* Mutant: the value is set without `ex=`.
_cache_response_NoExpiry(resp, up) ==
    [out |-> Return(None),
     set |-> IF up THEN "ok" ELSE "failed",
     value |-> Bytes(json_dumps(resp.data)),
     ex |-> 0]

\* TaskService._cache_response: its outcome, and the set it issued.
_cache_response(resp, up) ==
    [out |-> Return(None),
     set |-> IF up THEN "ok" ELSE "failed",
     value |-> Bytes(json_dumps(resp.data)),
     ex |-> CACHE_EXPIRE]

\* get_all_tasks after _get_cached_data: `if cached_data:`.
AfterGet(r) ==
    IF IsRaise(r) THEN [pc |-> "done", result |-> r, cached_data |-> None]
    ELSE [pc |-> IF Truthy(r[2]) THEN "parse" ELSE "source",
          result |-> None, cached_data |-> r[2]]

\* Mutant: the cached payload is returned inside another list.
AfterParse_Nested(r) ==
    IF IsRaise(r) THEN [pc |-> "done", result |-> r, parsed_data |-> None]
    ELSE IF Truthy(r[2])
    THEN [pc |-> "done",
          result |-> Return(ParseTasksResponse(HTTP_200_OK, FromCacheDetails,
                                               <<"arr", <<r[2]>>>>)),
          parsed_data |-> r[2]]
    ELSE [pc |-> "source", result |-> None, parsed_data |-> r[2]]

\* Mutant: after an unusable cached value the cache is tried again.
AfterParse_Retry(r) ==
    IF IsRaise(r) THEN [pc |-> "done", result |-> r, parsed_data |-> None]
    ELSE IF Truthy(r[2])
    THEN [pc |-> "done",
          result |-> Return(ParseTasksResponse(HTTP_200_OK, FromCacheDetails, r[2])),
          parsed_data |-> r[2]]
    ELSE [pc |-> "get", result |-> None, parsed_data |-> r[2]]

\* get_all_tasks after _parse_cached_data: `if parsed_data:` and the return
\* of the cached payload.
AfterParse(r) ==
    IF IsRaise(r) THEN [pc |-> "done", result |-> r, parsed_data |-> None]
    ELSE IF Truthy(r[2])
    THEN [pc |-> "done",
          result |-> Return(ParseTasksResponse(HTTP_200_OK, FromCacheDetails, r[2])),
          parsed_data |-> r[2]]
    ELSE [pc |-> "source", result |-> None, parsed_data |-> r[2]]

\* Mutant: a failure of the source is swallowed and an empty envelope goes on
\* to the write-back.
AfterParseShop_Swallow(r) ==
    [pc |-> "set", result |-> None,
     response |-> IF IsRaise(r)
                  THEN ParseTasksResponse(HTTP_200_OK, FromExcelDetails, <<"arr", <<>>>>)
                  ELSE r[2]]

\* get_all_tasks after `await ExcelService.parse_shop(request)`.
AfterParseShop(r) ==
    IF IsRaise(r) THEN [pc |-> "done", result |-> r, response |-> None]
    ELSE [pc |-> "set", result |-> None, response |-> r[2]]

\* get_all_tasks after _cache_response: `return response`.
AfterCacheResponse(r, resp) ==
    IF IsRaise(r) THEN r ELSE Return(resp)

\* upload_file(uploaded_file): the stored photo, or the upload's failure.
upload_file(ok) ==
    IF ok THEN Return(<<"str", "photo">>) ELSE Raise("UploadError", 0, "upload failed")

\* TaskRepository.create_task: a new record, under the least unused id.
RepositoryCreate(tasks, ok) ==
    IF ok /\ Cardinality(tasks) < MaxTasks
    THEN LET id == CHOOSE i \in (1..MaxTasks) \ tasks : \A j \in (1..MaxTasks) \ tasks : i <= j
         IN  [out |-> Return(<<"num", id>>), tasks |-> tasks \cup {id}]
    ELSE [out |-> Raise("SQLAlchemyError", 0, "not persisted"), tasks |-> tasks]

\* TaskRepository.delete_task: the record is removed; a missing one is a failure.
RepositoryDelete(tasks, task_id, ok) ==
    IF ok /\ task_id \in tasks
    THEN [out |-> Return(<<"str", "deleted">>), tasks |-> tasks \ {task_id}]
    ELSE [out |-> Raise("SQLAlchemyError", 0, "not deleted"), tasks |-> tasks]

\* Mutant: creating a task invalidates the cached catalogue.
create_tasks_Invalidate(tasks, uploaded, persisted) ==
    LET new_task == RepositoryCreate(tasks, uploaded /\ persisted)
    IN  [out |-> new_task.out, tasks |-> new_task.tasks, store |-> <<"delete">>]

\* TaskService.create_tasks: its outcome, the records after it, and the
\* operations it issued on the cache store (none).
create_tasks(tasks, uploaded, persisted) ==
    LET photo == upload_file(uploaded)
    IN  IF IsRaise(photo) THEN [out |-> photo, tasks |-> tasks, store |-> <<>>]
        ELSE LET new_task == RepositoryCreate(tasks, persisted)
             IN  IF IsRaise(new_task.out)
                 THEN [out |-> new_task.out, tasks |-> new_task.tasks, store |-> <<>>]
                 ELSE [out |-> Return(<<"TaskRead", "success", new_task.out[2]>>),
                       tasks |-> new_task.tasks, store |-> <<>>]

\* TaskService.delete_task: its outcome, the records after it, and the
\* operations it issued on the cache store (none).
delete_task(tasks, task_id, persisted) ==
    LET msg == RepositoryDelete(tasks, task_id, persisted)
    IN  IF IsRaise(msg.out) THEN [out |-> msg.out, tasks |-> msg.tasks, store |-> <<>>]
        ELSE [out |-> Return(<<"TaskBaseResponse", "success", msg.out[2]>>),
              tasks |-> msg.tasks, store |-> <<>>]

\* The key after the store's operations named in issued: a delete removes it.
RECURSIVE StoreAfter(_, _)
StoreAfter(entry, issued) ==
    IF Len(issued) = 0 THEN entry
    ELSE StoreAfter(IF Head(issued) = "delete" THEN [val |-> None, ttl |-> 0] ELSE entry,
                    Tail(issued))

Op(name, ok) == [op |-> name, ok |-> ok]
Idle == \A q \in Procs : pc[q] = "idle"
Disturbed == [fresh |-> FALSE, calls |-> <<>>, expired |-> FALSE]

Init ==
    /\ cache = None
    /\ cacheTtl = 0
    /\ file \in Files
    /\ pc = [p \in Procs |-> "idle"]
    /\ cached_data = [p \in Procs |-> None]
    /\ parsed_data = [p \in Procs |-> None]
    /\ response = [p \in Procs |-> None]
    /\ result = [p \in Procs |-> None]
    /\ ops = [p \in Procs |-> <<>>]
    /\ warm = [fresh |-> TRUE, calls |-> <<>>, expired |-> FALSE]
    /\ db = [tasks |-> {}, out |-> None]

\* A request enters get_all_tasks.
Start(p) ==
    /\ pc[p] = "idle"
    /\ Len(warm.calls) < MaxCalls
    /\ pc' = [pc EXCEPT ![p] = "get"]
    /\ UNCHANGED <<db, cache, cacheTtl, file, cached_data, parsed_data, response, result,
                   ops, warm>>

\* cached_data = TaskService._get_cached_data(); if cached_data: ...
Get(p) ==
    /\ pc[p] = "get"
    /\ \E up \in BOOLEAN :
         LET a == AfterGet(_get_cached_data(up, cache))
         IN  /\ pc' = [pc EXCEPT ![p] = a.pc]
             /\ result' = [result EXCEPT ![p] = a.result]
             /\ cached_data' = [cached_data EXCEPT ![p] = a.cached_data]
             /\ ops' = [ops EXCEPT ![p] = Append(@, Op("get", up))]
             /\ warm' = IF up THEN warm ELSE Disturbed
    /\ UNCHANGED <<db, cache, cacheTtl, file, parsed_data, response>>

\* parsed_data = TaskService._parse_cached_data(cached_data); if parsed_data: ...
Parse(p) ==
    /\ pc[p] = "parse"
    /\ \E up \in BOOLEAN :
         LET r == _parse_cached_data(cached_data[p], up)
             a == AfterParse(r.out)
         IN  /\ pc' = [pc EXCEPT ![p] = a.pc]
             /\ result' = [result EXCEPT ![p] = a.result]
             /\ parsed_data' = [parsed_data EXCEPT ![p] = a.parsed_data]
             /\ cache' = IF r.del = "ok" THEN None ELSE cache
             /\ cacheTtl' = IF r.del = "ok" THEN 0 ELSE cacheTtl
             /\ ops' = [ops EXCEPT ![p] =
                          IF r.del = "no" THEN @ ELSE Append(@, Op("delete", r.del = "ok"))]
             /\ warm' = IF r.del = "failed" \/ IsRaise(a.result) THEN Disturbed ELSE warm
    /\ UNCHANGED <<db, file, cached_data, response>>

\* response = await ExcelService.parse_shop(request)
Source(p) ==
    /\ pc[p] = "source"
    /\ LET r == parse_shop(file)
           a == AfterParseShop(r)
       IN  /\ pc' = [pc EXCEPT ![p] = a.pc]
           /\ result' = [result EXCEPT ![p] = a.result]
           /\ response' = [response EXCEPT ![p] = a.response]
           /\ ops' = [ops EXCEPT ![p] = Append(@, Op("parse_shop", IsReturn(r)))]
           /\ warm' = IF IsReturn(r) THEN warm ELSE Disturbed
    /\ UNCHANGED <<db, cache, cacheTtl, file, cached_data, parsed_data>>

\* TaskService._cache_response(response); return response
WriteBack(p) ==
    /\ pc[p] = "set"
    /\ \E up \in BOOLEAN :
         LET w == _cache_response(response[p], up)
         IN  /\ result' = [result EXCEPT ![p] = AfterCacheResponse(w.out, response[p])]
             /\ cache' = IF w.set = "ok" THEN w.value ELSE cache
             /\ cacheTtl' = IF w.set = "ok" THEN w.ex ELSE cacheTtl
             /\ ops' = [ops EXCEPT ![p] =
                          IF w.set = "no" THEN @ ELSE Append(@, Op("set", w.set = "ok"))]
             /\ warm' = IF w.set = "failed" THEN Disturbed ELSE warm
    /\ pc' = [pc EXCEPT ![p] = "done"]
    /\ UNCHANGED <<db, file, cached_data, parsed_data, response>>

\* The outcome has reached the caller; the call's frame is gone.
Finish(p) ==
    /\ pc[p] = "done"
    /\ pc' = [pc EXCEPT ![p] = "idle"]
    /\ cached_data' = [cached_data EXCEPT ![p] = None]
    /\ parsed_data' = [parsed_data EXCEPT ![p] = None]
    /\ response' = [response EXCEPT ![p] = None]
    /\ result' = [result EXCEPT ![p] = None]
    /\ ops' = [ops EXCEPT ![p] = <<>>]
    /\ warm' = IF warm.fresh
               THEN [warm EXCEPT !.calls = Append(@, [result |-> result[p], ops |-> ops[p]])]
               ELSE warm
    /\ UNCHANGED <<db, cache, cacheTtl, file>>

\* Another client of the store writes bytes at the key.
Corrupt(v) ==
    /\ cache' = Bytes(v)
    /\ cacheTtl' = 0
    /\ warm' = Disturbed
    /\ UNCHANGED <<db, file, pc, cached_data, parsed_data, response, result, ops>>

\* The key's expiry elapses.
Expire ==
    /\ cache[1] = "bytes"
    /\ cacheTtl > 0
    /\ cache' = None
    /\ cacheTtl' = 0
    /\ warm' = [fresh |-> Idle, calls |-> <<>>, expired |-> TRUE]
    /\ UNCHANGED <<db, file, pc, cached_data, parsed_data, response, result, ops>>

\* The caller goes away while the call waits on the store or on the file: the
\* call ends there with CancelledError.
Cancel(p) ==
    /\ pc[p] \in {"get", "parse", "source", "set"}
    /\ pc' = [pc EXCEPT ![p] = "done"]
    /\ result' = [result EXCEPT ![p] = Raise("CancelledError", 0, "cancelled")]
    /\ warm' = Disturbed
    /\ UNCHANGED <<db, cache, cacheTtl, file, cached_data, parsed_data, response, ops>>

\* POST /tasks: TaskService.create_tasks
CreateTasks ==
    \E uploaded \in BOOLEAN, persisted \in BOOLEAN :
        LET r == create_tasks(db.tasks, uploaded, persisted)
            entry == StoreAfter([val |-> cache, ttl |-> cacheTtl], r.store)
        IN  /\ db' = [tasks |-> r.tasks, out |-> r.out]
            /\ cache' = entry.val
            /\ cacheTtl' = entry.ttl
            /\ UNCHANGED <<file, pc, cached_data, parsed_data, response, result, ops, warm>>

\* DELETE /tasks/{id}: TaskService.delete_task
DeleteTask ==
    \E task_id \in 1..MaxTasks, persisted \in BOOLEAN :
        LET r == delete_task(db.tasks, task_id, persisted)
            entry == StoreAfter([val |-> cache, ttl |-> cacheTtl], r.store)
        IN  /\ db' = [tasks |-> r.tasks, out |-> r.out]
            /\ cache' = entry.val
            /\ cacheTtl' = entry.ttl
            /\ UNCHANGED <<file, pc, cached_data, parsed_data, response, result, ops, warm>>

\* Requests served one after another; the store's other clients act between them.
Next ==
    \/ \E p \in Procs : Idle /\ Start(p)
    \/ \E p \in Procs : Get(p)
    \/ \E p \in Procs : Parse(p)
    \/ \E p \in Procs : Source(p)
    \/ \E p \in Procs : WriteBack(p)
    \/ \E p \in Procs : Finish(p)
    \/ \E v \in ForeignValues : Idle /\ Corrupt(v)
    \/ Idle /\ Expire

Spec == Init /\ [][Next]_vars

\* Requests served concurrently, each call one store or file operation at a
\* time; callers may go away; the store's other clients act between bursts.
NextConc ==
    \/ \E p \in Procs : Start(p)
    \/ \E p \in Procs : Get(p)
    \/ \E p \in Procs : Parse(p)
    \/ \E p \in Procs : Source(p)
    \/ \E p \in Procs : WriteBack(p)
    \/ \E p \in Procs : Finish(p)
    \/ \E p \in Procs : Cancel(p)
    \/ \E v \in ForeignKinds : Idle /\ Corrupt(v)
    \/ Expire

SpecConc == Init /\ [][NextConc]_vars

\* Reads interleaved with the write path.
NextWrite ==
    \/ \E p \in Procs : Start(p)
    \/ \E p \in Procs : Get(p)
    \/ \E p \in Procs : Parse(p)
    \/ \E p \in Procs : Source(p)
    \/ \E p \in Procs : WriteBack(p)
    \/ \E p \in Procs : Finish(p)
    \/ Expire
    \/ CreateTasks
    \/ DeleteTask

SpecWrite == Init /\ [][NextWrite]_vars

(* ------------------------------ claims -------------------------------- *)

Issued(p, name) == \E i \in 1..Len(ops[p]) : ops[p][i].op = name
IssuedOk(p, name, ok) == \E i \in 1..Len(ops[p]) : ops[p][i] = Op(name, ok)
SourceWorks == IsReturn(parse_shop(file))
Returned(p, envelope) == IsReturn(result[p]) /\ result[p][2] = envelope
Raised(p, exception) == IsRaise(result[p]) /\ result[p] = exception
\* The path ends in neither .xlsx nor .xls.
Unsupported(path) == ~EndsWith(path, Xlsx) /\ ~EndsWith(path, Xls)
UnsupportedFormat ==
    Raise("HTTPException", HTTP_422_UNPROCESSABLE_ENTITY, "Unprocessable content")

\* C1: a finished call whose cache get raised, over a source that can be
\* read, has returned the source's envelope: it went on as after a miss (the
\* source read, then the write-back, no delete), whatever the set did.
C1_StoreDownReadsSource ==
    \A p \in Procs :
        (pc[p] = "done" /\ IssuedOk(p, "get", FALSE) /\ SourceWorks)
            => /\ Returned(p, parse_shop(file)[2])
               /\ result[p][2].status = HTTP_200_OK
               /\ \E up \in BOOLEAN :
                    ops[p] = <<Op("get", FALSE), Op("parse_shop", TRUE), Op("set", up)>>

\* C1 witness: the store failed on the get and on the set, and the call returned 200.
C1_Witness ==
    \E p \in Procs :
        /\ pc[p] = "done"
        /\ ops[p] = <<Op("get", FALSE), Op("parse_shop", TRUE), Op("set", FALSE)>>
        /\ IsReturn(result[p])
        /\ result[p][2].data = parse_shop(file)[2].data

\* The value a call read from the key does not deserialize.
ReadCorrupted(p) ==
    /\ IssuedOk(p, "get", TRUE)
    /\ Truthy(cached_data[p])
    /\ IsRaise(json_loads(cached_data[p]))

\* C2: a finished call that read a non-deserializable value, with get, set
\* and source working, (a) issued a delete, (b) invoked the source, (c)
\* returned the 200 envelope of the source rows, and (d) left at the key a
\* value that deserializes to the returned payload; the delete may have failed.
C2_CorruptionRecovery ==
    \A p \in Procs :
        (pc[p] = "done" /\ ReadCorrupted(p) /\ SourceWorks /\ ~IssuedOk(p, "set", FALSE))
            => /\ Issued(p, "delete")
               /\ IssuedOk(p, "parse_shop", TRUE)
               /\ Returned(p, parse_shop(file)[2])
               /\ cache[1] = "bytes"
               /\ json_loads(cache) = Return(result[p][2].data)

\* C3: whatever the key holds and whatever the store's operations do, a
\* finished call over a source that can be read has returned a 200 envelope.
C3_OnlySourceFails ==
    \A p \in Procs :
        (pc[p] = "done" /\ SourceWorks)
            => IsReturn(result[p]) /\ result[p][2].status = HTTP_200_OK

\* C4: once a call has read a non-empty value that deserializes, it is
\* finished, having returned 200, the from-cache details and the deserialized
\* value, without invoking the source.
C4_FastPath ==
    \A p \in Procs :
        (/\ pc[p] \notin {"idle", "get", "parse"}
         /\ IssuedOk(p, "get", TRUE)
         /\ Truthy(cached_data[p])
         /\ IsReturn(json_loads(cached_data[p])))
            => /\ pc[p] = "done"
               /\ Returned(p, ParseTasksResponse(HTTP_200_OK, FromCacheDetails,
                                                 json_loads(cached_data[p])[2]))
               /\ ~Issued(p, "parse_shop")

\* C5: a finished call that read the source successfully has returned exactly
\* the source's envelope, whether its write-back succeeded or failed.
C5_WriteBackBestEffort ==
    \A p \in Procs :
        (pc[p] = "done" /\ IssuedOk(p, "parse_shop", TRUE))
            => /\ Issued(p, "set")
               /\ Returned(p, parse_shop(file)[2])

\* C5 witness: the set failed and the call returned the source's envelope.
C5_Witness ==
    \E p \in Procs :
        /\ pc[p] = "done"
        /\ IssuedOk(p, "get", TRUE)
        /\ IssuedOk(p, "set", FALSE)
        /\ Returned(p, parse_shop(file)[2])

\* C6: in a run of calls that began with the key empty and in which no store
\* or source operation failed and nothing else touched the key, the first
\* call invoked the source, every later call issued one get and nothing else
\* and answered from the cache, and every call returned the source's rows.
C6_WarmIdempotence ==
    warm.fresh =>
        \A i \in 1..Len(warm.calls) :
            LET c == warm.calls[i]
            IN  /\ IsReturn(c.result)
                /\ c.result[2].data = warm.calls[1].result[2].data
                /\ c.result[2].data = parse_shop(file)[2].data
                /\ i = 1 => c.ops = <<Op("get", TRUE), Op("parse_shop", TRUE), Op("set", TRUE)>>
                /\ i > 1 => /\ c.ops = <<Op("get", TRUE)>>
                            /\ c.result[2].details = FromCacheDetails

\* C6 witness: a cold call and two warm calls over a sheet of two rows.
C6_Witness ==
    /\ warm.fresh
    /\ Len(warm.calls) >= 3
    /\ Len(warm.calls[3].result[2].data[2]) = 2

\* C7 as stated: a finished call over a file of unsupported extension has
\* failed with UnsupportedFormat and issued no get, set or delete.
C7_NoCacheInteraction ==
    \A p \in Procs :
        (pc[p] = "done" /\ Unsupported(file.path))
            => /\ Raised(p, UnsupportedFormat)
               /\ ops[p] = <<>>

\* C7 amended: over a file of unsupported extension, a finished call that
\* invoked the source has failed with UnsupportedFormat (422) and issued no
\* set; its first operation was the get of the key.
C7_UnsupportedNoSet ==
    \A p \in Procs :
        (pc[p] = "done" /\ Unsupported(file.path) /\ Issued(p, "parse_shop"))
            => /\ Raised(p, UnsupportedFormat)
               /\ ~Issued(p, "set")
               /\ ops[p][1].op = "get"
               /\ ops[p][Len(ops[p])] = Op("parse_shop", FALSE)

\* C7 witness: a .csv file, a malformed value deleted from the key, then 422.
C7_Witness ==
    \E p \in Procs :
        /\ pc[p] = "done"
        /\ file.path = <<"f">> \o Csv
        /\ ops[p] = <<Op("get", TRUE), Op("delete", TRUE), Op("parse_shop", FALSE)>>
        /\ Raised(p, UnsupportedFormat)

\* C8: once the source has been invoked, it has failed with UnsupportedFormat
\* exactly if the path ends in neither .xlsx nor .xls.
C8_ExtensionCheck ==
    \A p \in Procs :
        Issued(p, "parse_shop")
            => ((pc[p] = "done" /\ Raised(p, UnsupportedFormat)) <=> Unsupported(file.path))

\* C9: a call whose source read failed is finished with that failure and has
\* issued no set.
C9_NoSetAfterSourceFailure ==
    \A p \in Procs :
        IssuedOk(p, "parse_shop", FALSE)
            => /\ ~Issued(p, "set")
               /\ pc[p] = "done"
               /\ IsRaise(result[p])

\* C9 witness: an empty sheet, read after a miss.
C9_Witness ==
    \E p \in Procs :
        /\ ops[p] = <<Op("get", TRUE), Op("parse_shop", FALSE)>>
        /\ Raised(p, Raise("HTTPException", HTTP_404_NOT_FOUND, "no such table"))

\* C10: a finished call that got no usable value from the cache (a miss, a
\* failed get, or a value that does not deserialize), over a source that
\* fails, has failed with the source's own failure.
C10_SourceFailureSurfaces ==
    \A p \in Procs :
        (/\ pc[p] = "done"
         /\ ~SourceWorks
         /\ \/ IssuedOk(p, "get", FALSE)
            \/ ~Truthy(cached_data[p])
            \/ IsRaise(json_loads(cached_data[p])))
            => Raised(p, parse_shop(file))

\* C11 as stated: in a run of calls from an empty key with no failure and no
\* foreign write, the envelope of the call served from the source and the
\* envelopes of the calls served from the cache are the same.
C11_SameEnvelope ==
    warm.fresh =>
        \A i, j \in 1..Len(warm.calls) : warm.calls[i].result = warm.calls[j].result

\* C11 amended: in such a run the envelopes have the same status and the
\* same payload; only the details string tells a hit from a source read.
C11_SameStatusAndData ==
    warm.fresh =>
        \A i, j \in 1..Len(warm.calls) :
            LET a == warm.calls[i].result[2]
                b == warm.calls[j].result[2]
            IN  /\ a.status = b.status
                /\ a.data = b.data
                /\ (a.details = b.details) <=> (Len(warm.calls[i].ops) = Len(warm.calls[j].ops))

\* C11 witness: a call served from the source followed by one served from the cache.
C11_Witness ==
    /\ warm.fresh
    /\ Len(warm.calls) >= 2
    /\ warm.calls[1].result[2].details = FromExcelDetails
    /\ warm.calls[2].result[2].details = FromCacheDetails
    /\ warm.calls[1].result[2].data = warm.calls[2].result[2].data

\* The operations of call p that have succeeded so far are exactly these.
Did(p, names) ==
    /\ Len(ops[p]) = Len(names)
    /\ \A i \in 1..Len(names) : ops[p][i] = Op(names[i], TRUE)

\* C12: among concurrent calls over a key that was empty, with no failure, no
\* foreign write and no cancellation, every call that saw the miss goes on
\* to read the source and to write back, whatever the other calls have
\* done; every finished call has returned 200 and the source rows; and when
\* no call is in flight the key holds the serialized source rows, written
\* with the expiry, by every call that saw the miss.
C12_ConcurrentMiss ==
    warm.fresh =>
        /\ \A p \in Procs :
            /\ (pc[p] = "source" => Did(p, <<"get">>) /\ cached_data[p] = None)
            /\ (pc[p] = "set" => Did(p, <<"get", "parse_shop">>))
            /\ (pc[p] = "done" /\ cached_data[p] = None
                    => Did(p, <<"get", "parse_shop", "set">>))
            /\ (pc[p] = "done"
                    => /\ IsReturn(result[p])
                       /\ result[p][2].status = HTTP_200_OK
                       /\ result[p][2].data = parse_shop(file)[2].data)
        /\ (Idle /\ Len(warm.calls) > 0)
                => /\ cache = Bytes(json_dumps(parse_shop(file)[2].data))
                   /\ json_loads(cache) = Return(parse_shop(file)[2].data)
                   /\ cacheTtl = CACHE_EXPIRE
        /\ \A i \in 1..Len(warm.calls) :
                Len(warm.calls[i].ops) > 1
                    => warm.calls[i].ops = <<Op("get", TRUE), Op("parse_shop", TRUE),
                                             Op("set", TRUE)>>

\* C12 witness: two calls saw the same miss; both read the source and both
\* wrote back.
C12_Witness ==
    /\ warm.fresh
    /\ Idle
    /\ Len(warm.calls) = 2
    /\ \A i \in 1..2 : Len(warm.calls[i].ops) = 3
    /\ Len(parse_shop(file)[2].data[2]) = 2

\* C13: the value a finished call has set at the key is the serialization of
\* the data of the envelope parse_shop returned to that call, and it
\* deserializes to the source rows alone; a call answered from the cache has
\* returned status 200 and the from-cache details whatever the key held, and
\* as data the whole deserialized value.
C13_PayloadOnly ==
    \A p \in Procs :
        /\ (pc[p] = "done" /\ IssuedOk(p, "set", TRUE))
                => /\ response[p] = parse_shop(file)[2]
                   /\ cache = Bytes(json_dumps(response[p].data))
                   /\ json_loads(cache) = Return(parse_shop(file)[2].data)
        /\ (pc[p] = "done" /\ ops[p] = <<Op("get", TRUE)>> /\ IsReturn(result[p]))
                => result[p][2] = ParseTasksResponse(HTTP_200_OK, FromCacheDetails,
                                                     json_loads(cached_data[p])[2])

\* C13 witness: a call has written two rows back.
C13_Witness ==
    \E p \in Procs :
        /\ pc[p] = "done"
        /\ IssuedOk(p, "set", TRUE)
        /\ cache = Bytes(<<"[", "{", "k", ":", "1", "}", ",", "{", "k", ":", "0", "}", "]">>)

CancelledError == Raise("CancelledError", 0, "cancelled")

\* C14: in every state, also after calls were cancelled at any point between
\* their operations, the key is absent, or holds a value another client
\* wrote there (no expiry), or holds one complete serialization of the source
\* rows, set with the expiry.
C14_NoPartialState ==
    \/ cache = None /\ cacheTtl = 0
    \/ /\ cache[1] = "bytes"
       /\ cacheTtl = 0
       /\ cache[2] \in ForeignKinds
    \/ /\ cache[1] = "bytes"
       /\ cacheTtl = CACHE_EXPIRE
       /\ SourceWorks
       /\ cache = Bytes(json_dumps(parse_shop(file)[2].data))
       /\ json_loads(cache) = Return(parse_shop(file)[2].data)

\* C14 witness: one call was cancelled between its source read and its set,
\* the other between the delete of a malformed value and its source read;
\* the key is absent.
C14_Witness ==
    /\ Raised(1, CancelledError)
    /\ ops[1] = <<Op("get", TRUE), Op("parse_shop", TRUE)>>
    /\ Raised(2, CancelledError)
    /\ ops[2] = <<Op("get", TRUE), Op("delete", TRUE)>>
    /\ cache[1] = "none"

\* C15: a finished call that has set the key has set it with the configured
\* expiry; and after that expiry has elapsed a call finds the key absent, and
\* the first call then reads the source and writes a new entry, again with
\* the expiry.
C15_WriteBackExpires ==
    /\ \A p \in Procs :
        (pc[p] = "done" /\ IssuedOk(p, "set", TRUE))
            => cache[1] = "bytes" /\ cacheTtl = CACHE_EXPIRE /\ cacheTtl > 0
    /\ (warm.fresh /\ warm.expired)
            => /\ \A p \in Procs :
                    (Len(warm.calls) = 0 /\ pc[p] \notin {"idle", "get"})
                        => cached_data[p] = None /\ ops[p][1] = Op("get", TRUE)
               /\ Len(warm.calls) > 0
                    => /\ warm.calls[1].ops = <<Op("get", TRUE), Op("parse_shop", TRUE),
                                                Op("set", TRUE)>>
                       /\ cache = Bytes(json_dumps(warm.calls[1].result[2].data))
                       /\ cacheTtl = CACHE_EXPIRE

\* C15 witness: an entry expired, and the next call has written a new one.
C15_Witness ==
    /\ warm.fresh
    /\ warm.expired
    /\ Len(warm.calls) = 1
    /\ cache[1] = "bytes"
    /\ cacheTtl = CACHE_EXPIRE

\* C16: a step of the write path (create_tasks or delete_task, succeeding or
\* failing: the relational store or the last write outcome changes) leaves
\* the key, its expiry and the operations of the calls in flight as they were.
C16_WritePathFrame ==
    [][db' # db => cache' = cache /\ cacheTtl' = cacheTtl /\ ops' = ops]_vars

\* C16 witness: an entry at the key, a read in flight, and one record left
\* after a successful deletion.
C16_Witness ==
    /\ cache[1] = "bytes"
    /\ cacheTtl = CACHE_EXPIRE
    /\ \E p \in Procs : pc[p] = "parse"
    /\ Cardinality(db.tasks) = 1
    /\ db.out = Return(<<"TaskBaseResponse", "success", <<"str", "deleted">>>>)

\* C17: the steps of a call that is answered from the cache leave the key
\* and its expiry as they were, and that call has issued one get and nothing
\* else.
C17_HitLeavesStore ==
    [][\A p \in Procs :
          /\ (pc[p] = "get" /\ pc'[p] = "parse")
                => cache' = cache /\ cacheTtl' = cacheTtl
          /\ (pc[p] = "parse" /\ pc'[p] = "done" /\ IsReturn(result'[p]))
                => /\ cache' = cache
                   /\ cacheTtl' = cacheTtl
                   /\ ops'[p] = <<Op("get", TRUE)>>]_vars

\* C17 witness: a call answered from an entry that a call before it wrote;
\* the entry and its expiry are still there.
C17_Witness ==
    \E p \in Procs :
        /\ pc[p] = "done"
        /\ ops[p] = <<Op("get", TRUE)>>
        /\ IsReturn(result[p])
        /\ result[p][2].details = FromCacheDetails
        /\ cache = cached_data[p]
        /\ cacheTtl = CACHE_EXPIRE

\* The names of the operations call p has issued, in order.
Issues(p) == [i \in 1..Len(ops[p]) |-> ops[p][i].op]

\* The orders in which one call may issue its operations.
CallOrders ==
    {<<"get">>,
     <<"get", "delete">>,
     <<"get", "parse_shop">>,
     <<"get", "delete", "parse_shop">>,
     <<"get", "parse_shop", "set">>,
     <<"get", "delete", "parse_shop", "set">>}

\* C18: what a call has issued so far is the get, then at most one delete,
\* then at most one source read, then at most one set, nothing twice; a
\* delete only after the get returned a value that does not deserialize, a
\* set only after the source read succeeded; a finished call that was not
\* answered from the cache and did not fail has issued the set.
C18_OperationOrder ==
    \A p \in Procs :
        /\ pc[p] \in {"idle", "get"} <=> ops[p] = <<>>
        /\ ops[p] # <<>> => Issues(p) \in CallOrders
        /\ Issued(p, "delete")
                => /\ ops[p][1] = Op("get", TRUE)
                   /\ Truthy(cached_data[p])
                   /\ IsRaise(json_loads(cached_data[p]))
        /\ Issued(p, "set") => IssuedOk(p, "parse_shop", TRUE)
        /\ (pc[p] = "done" /\ IssuedOk(p, "parse_shop", TRUE)) => Issued(p, "set")

\* C18 witness: all four operations, the delete having failed.
C18_Witness ==
    \E p \in Procs :
        ops[p] = <<Op("get", TRUE), Op("delete", FALSE), Op("parse_shop", TRUE),
                   Op("set", TRUE)>>

\* C19: when a call's delete removes something from the key, it removes the
\* value that this call read (not an entry written at the key since).
C19_DeleteOnlyWhatWasRead ==
    [][\A p \in Procs :
          (pc[p] = "parse" /\ ops'[p] = Append(ops[p], Op("delete", TRUE)))
                => cache = None \/ cache = cached_data[p]]_vars

====
